---- MODULE Spec2Model ----
(***************************************************************************)
(* serde-string-enum: the four derive macros of src/src/lib.rs, the        *)
(* declaration parser of src/src/parse.rs, and the code the labeled        *)
(* macros emit (Display::fmt, FromStr::from_str, the serde adapters).      *)
(*                                                                         *)
(* A string is a sequence of one-character strings, so that case folding   *)
(* and format-string processing work on characters.  A variant's ident is  *)
(* its position in the declaration (Rust guarantees idents are unique).    *)
(***************************************************************************)
EXTENDS Naturals, Sequences, FiniteSets, TLC

VARIABLES input, output, impls, ret, serde

vars == <<input, output, impls, ret, serde>>

(***************************************************************************)
(* Bounds of the explored declarations.                                    *)
(***************************************************************************)
\* variants + annotations of a declaration handed to a derive macro (Spec)
MaxDeclSize == 4
\* canonical strings + aliases of a labeled enum whose emitted code is run
MaxLabels == 4
\* the same, of an enum whose values go through serde (SpecSerde)
MaxSerdeLabels == 2
\* values in a serialized collection
MaxSeq == 2

(***************************************************************************)
(* Values shared by the parser and the emitted code.                       *)
(***************************************************************************)
None == [some |-> FALSE, val |-> <<>>]
Some(x) == [some |-> TRUE, val |-> x]

Ok(x) == [ok |-> TRUE, val |-> x]
Err(e) == [ok |-> FALSE, err |-> e]

\* syn::Error values built by parse.rs, named as the specification names them
NotAnEnum == [kind |-> "NotAnEnum", name |-> ""]
EmptyEnum == [kind |-> "EmptyEnum", name |-> ""]
NonUnitVariant == [kind |-> "NonUnitVariant", name |-> ""]
MissingCanonicalString == [kind |-> "MissingCanonicalString", name |-> ""]
MalformedAttribute(attribute_name) == [kind |-> "MalformedAttribute", name |-> attribute_name]

(***************************************************************************)
(* parse.rs                                                                *)
(***************************************************************************)
\* VariantAttrs::new
VariantAttrs_new == [string |-> None, aliases |-> <<>>]

\* mutant: any literal is taken, the Lit::Str test forgotten
get_string_literal_of_any_lit(attribute_name, name_value) ==
    IF name_value.value.expr = "Lit"
    THEN Ok(name_value.value.str)
    ELSE Err(MalformedAttribute(attribute_name))

\* Ok(the literal) for Expr::Lit(Lit::Str), otherwise the
\* "\"{attribute_name}\" attribute must be a string literal" error
get_string_literal_from_name_value_attr(attribute_name, name_value) ==
    IF name_value.value.expr = "Lit"
    THEN IF name_value.value.lit = "Str"
         THEN Ok(name_value.value.str)
         ELSE Err(MalformedAttribute(attribute_name))
    ELSE Err(MalformedAttribute(attribute_name))

\* the body of the for loop of parse_variant_attrs from attribute i on,
\* attrs being the VariantAttrs accumulated so far; `?` returns the error
RECURSIVE parse_variant_attrs_from(_, _, _)
parse_variant_attrs_from(variant_attrs, i, attrs) ==
    IF i > Len(variant_attrs)
    THEN Ok(attrs)
    ELSE LET attr == variant_attrs[i] IN
         IF attr.meta = "NameValue"
         THEN IF attr.path = "string"
              THEN LET r == get_string_literal_from_name_value_attr("string", attr) IN
                   IF r.ok
                   THEN parse_variant_attrs_from(variant_attrs, i + 1,
                            [attrs EXCEPT !.string = Some(r.val)])
                   ELSE r
              ELSE IF attr.path = "alias"
              THEN LET r == get_string_literal_from_name_value_attr("alias", attr) IN
                   IF r.ok
                   THEN parse_variant_attrs_from(variant_attrs, i + 1,
                            [attrs EXCEPT !.aliases = Append(@, r.val)])
                   ELSE r
              ELSE parse_variant_attrs_from(variant_attrs, i + 1, attrs)
         ELSE parse_variant_attrs_from(variant_attrs, i + 1, attrs)

parse_variant_attrs(variant) ==
    parse_variant_attrs_from(variant.attrs, 1, VariantAttrs_new)

\* the map(...).collect::<Result<Vec<_>>>() of Input::parse from variant i
\* on: the first variant whose attributes fail to parse ends the collection
RECURSIVE collect_variants(_, _, _)
collect_variants(data_variants, i, acc) ==
    IF i > Len(data_variants)
    THEN Ok(acc)
    ELSE LET variant == data_variants[i]
             attrs == parse_variant_attrs(variant)
         IN IF attrs.ok
            THEN collect_variants(data_variants, i + 1,
                     Append(acc, [ident |-> variant.ident,
                                  attrs |-> attrs.val,
                                  fields |-> variant.fields]))
            ELSE attrs

\* impl Parse for Input
Input_parse(derive_input) ==
    IF derive_input.data # "Enum"
    THEN Err(NotAnEnum)
    ELSE LET variants == collect_variants(derive_input.variants, 1, <<>>) IN
         IF ~variants.ok
         THEN variants
         ELSE IF variants.val = <<>>
         THEN Err(EmptyEnum)
         ELSE Ok([ident |-> derive_input.ident, variants |-> variants.val])

\* mutant: the "string" attribute is checked before the fields
LabeledStringInput_parse_string_first(derive_input) ==
    LET parsed == Input_parse(derive_input) IN
    IF ~parsed.ok
    THEN parsed
    ELSE IF ~(\A i \in DOMAIN parsed.val.variants :
                  parsed.val.variants[i].attrs.string.some)
    THEN Err(MissingCanonicalString)
    ELSE IF ~(\A i \in DOMAIN parsed.val.variants :
                  parsed.val.variants[i].fields = "Unit")
    THEN Err(NonUnitVariant)
    ELSE Ok([ident |-> parsed.val.ident, variants |-> parsed.val.variants])

\* mutant: the "string" attribute is not checked
LabeledStringInput_parse_no_string_check(derive_input) ==
    LET parsed == Input_parse(derive_input) IN
    IF ~parsed.ok
    THEN parsed
    ELSE IF ~(\A i \in DOMAIN parsed.val.variants :
                  parsed.val.variants[i].fields = "Unit")
    THEN Err(NonUnitVariant)
    ELSE Ok([ident |-> parsed.val.ident, variants |-> parsed.val.variants])

\* mutant: the fields are checked before the attributes are parsed
LabeledStringInput_parse_fields_first(derive_input) ==
    IF /\ derive_input.data = "Enum"
       /\ \E i \in DOMAIN derive_input.variants :
              derive_input.variants[i].fields # "Unit"
    THEN Err(NonUnitVariant)
    ELSE LET parsed == Input_parse(derive_input) IN
         IF ~parsed.ok
         THEN parsed
         ELSE IF ~(\A i \in DOMAIN parsed.val.variants :
                       parsed.val.variants[i].attrs.string.some)
         THEN Err(MissingCanonicalString)
         ELSE Ok([ident |-> parsed.val.ident, variants |-> parsed.val.variants])

\* impl Parse for LabeledStringInput
LabeledStringInput_parse(derive_input) ==
    LET parsed == Input_parse(derive_input) IN
    IF ~parsed.ok
    THEN parsed
    ELSE IF ~(\A i \in DOMAIN parsed.val.variants :
                  parsed.val.variants[i].fields = "Unit")
    THEN Err(NonUnitVariant)
    ELSE IF ~(\A i \in DOMAIN parsed.val.variants :
                  parsed.val.variants[i].attrs.string.some)
    THEN Err(MissingCanonicalString)
    ELSE Ok([ident |-> parsed.val.ident, variants |-> parsed.val.variants])

(***************************************************************************)
(* lib.rs: the derive macros.  An expansion is the compile error of a      *)
(* failed parse_macro_input!, or the emitted items.  Emitted items are     *)
(* data: the arms of the generated match, the generated chain of ifs, the  *)
(* error expression; they are run by the operators further down.           *)
(***************************************************************************)
NoError == [kind |-> "", name |-> ""]
NoTokens ==
    [ident |-> <<>>, impl_display |-> FALSE, display_arms |-> <<>>,
     impl_serialize |-> FALSE, impl_from_str |-> FALSE,
     unicase_input |-> [unicase |-> FALSE, t |-> [tok |-> "", str |-> <<>>]],
     from_str_arms |-> <<>>, error |-> "", error_type |-> "",
     impl_visitor |-> FALSE, impl_deserialize |-> FALSE]

CompileError(e) == [ok |-> FALSE, panic |-> FALSE, err |-> e, tokens |-> NoTokens]
Panic == [ok |-> FALSE, panic |-> TRUE, err |-> NoError, tokens |-> NoTokens]
Emitted(tokens) == [ok |-> TRUE, panic |-> FALSE, err |-> NoError, tokens |-> tokens]

\* a string literal token, and the identifier token `s`
LitToken(str) == [tok |-> "lit", str |-> str]
input_ident == [tok |-> "ident", str |-> <<"s">>]

\* the cargo features of the macro crate, read by cfg!; std enables alloc
FeatureSets ==
    {{}, {"alloc"}, {"alloc", "std"},
     {"unicase"}, {"unicase", "alloc"}, {"unicase", "alloc", "std"}}

\* derive_serialize
derive_serialize(derive_input) ==
    LET parsed == Input_parse(derive_input) IN
    IF ~parsed.ok
    THEN CompileError(parsed.err)
    ELSE Emitted([NoTokens EXCEPT !.ident = parsed.val.ident,
                                  !.impl_serialize = TRUE])

\* derive_deserialize
derive_deserialize(derive_input) ==
    LET parsed == Input_parse(derive_input) IN
    IF ~parsed.ok
    THEN CompileError(parsed.err)
    ELSE Emitted([NoTokens EXCEPT !.ident = parsed.val.ident,
                                  !.impl_visitor = TRUE,
                                  !.impl_deserialize = TRUE])

\* derive_labeled_serialize; Option::unwrap panics on None
derive_labeled_serialize(derive_input) ==
    LET parsed == LabeledStringInput_parse(derive_input) IN
    IF ~parsed.ok
    THEN CompileError(parsed.err)
    ELSE LET variants == parsed.val.variants IN
         IF \E i \in DOMAIN variants : ~variants[i].attrs.string.some
         THEN Panic
         ELSE Emitted([NoTokens EXCEPT
                  !.ident = parsed.val.ident,
                  !.impl_display = TRUE,
                  !.display_arms =
                      [i \in DOMAIN variants |->
                          [variant |-> variants[i].ident,
                           fmt |-> LitToken(variants[i].attrs.string.val)]],
                  !.impl_serialize = TRUE])

\* mutant: the feature is not consulted
wrap_unicase_never(features, t) == [unicase |-> FALSE, t |-> t]

\* wrap_unicase
wrap_unicase(features, t) ==
    IF "unicase" \in features
    THEN [unicase |-> TRUE, t |-> t]
    ELSE [unicase |-> FALSE, t |-> t]

\* mutant: the alias tests are left out
variant_match_no_alias(features, variant) ==
    <<[test |-> [unicase |-> "unicase" \in features,
                 t |-> LitToken(variant.attrs.string.val)],
       variant |-> variant.ident]>>

\* the tokens of one variant in match_variants of derive_labeled_deserialize:
\* the test of the "string" literal, then one test per alias
variant_match(features, variant) ==
    <<[test |-> wrap_unicase(features, LitToken(variant.attrs.string.val)),
       variant |-> variant.ident]>>
    \o [j \in DOMAIN variant.attrs.aliases |->
           [test |-> wrap_unicase(features, LitToken(variant.attrs.aliases[j])),
            variant |-> variant.ident]]

\* mutant: the variants' tokens in the reverse of the declaration order
RECURSIVE match_variants_reversed(_, _, _)
match_variants_reversed(features, variants, i) ==
    IF i > Len(variants)
    THEN <<>>
    ELSE match_variants_reversed(features, variants, i + 1)
         \o <<[test |-> [unicase |-> "unicase" \in features,
                         t |-> LitToken(variants[i].attrs.string.val)],
               variant |-> variants[i].ident]>>
         \o [j \in DOMAIN variants[i].attrs.aliases |->
                [test |-> [unicase |-> "unicase" \in features,
                           t |-> LitToken(variants[i].attrs.aliases[j])],
                 variant |-> variants[i].ident]]

\* #(#match_variants)* : the variants' tokens one after the other, from i on
RECURSIVE match_variants(_, _, _)
match_variants(features, variants, i) ==
    IF i > Len(variants)
    THEN <<>>
    ELSE variant_match(features, variants[i])
         \o match_variants(features, variants, i + 1)

\* derive_labeled_deserialize
derive_labeled_deserialize(features, derive_input) ==
    LET parsed == LabeledStringInput_parse(derive_input) IN
    IF ~parsed.ok
    THEN CompileError(parsed.err)
    ELSE LET variants == parsed.val.variants IN
         IF \E i \in DOMAIN variants : ~variants[i].attrs.string.some
         THEN Panic
         ELSE Emitted([NoTokens EXCEPT
                  !.ident = parsed.val.ident,
                  !.impl_from_str = TRUE,
                  !.unicase_input = wrap_unicase(features, input_ident),
                  !.from_str_arms = match_variants(features, variants, 1),
                  !.error_type =
                      IF "std" \in features THEN "std::string::String"
                      ELSE IF "alloc" \in features THEN "alloc::string::String"
                      ELSE "&'static str",
                  !.error =
                      IF "std" \in features THEN "std::format!"
                      ELSE IF "alloc" \in features THEN "alloc::fmt::format"
                      ELSE "invalid value",
                  !.impl_visitor = TRUE,
                  !.impl_deserialize = TRUE])

(***************************************************************************)
(* The emitted code, run.                                                  *)
(***************************************************************************)
\* the case folding of unicase::UniCase's comparison, on one character
Fold(c) ==
    IF c = "A" THEN "a" ELSE IF c = "B" THEN "b" ELSE c

to_folded(str) == [k \in DOMAIN str |-> Fold(str[k])]

\* the value of `unicase::UniCase::new(#t)` or `#t`, the identifier s bound
\* to the argument of from_str
Eval(wrapped, s) ==
    [unicase |-> wrapped.unicase,
     str |-> IF wrapped.t.tok = "ident" THEN s ELSE wrapped.t.str]

\* `==` on two &str, or on two UniCase
StrEq(x, y) ==
    IF x.unicase /\ y.unicase
    THEN to_folded(x.str) = to_folded(y.str)
    ELSE x.str = y.str

\* Display of a &str, and of a UniCase (which writes the wrapped string)
Display(x) == x.str

\* format_args! on a string literal with no arguments, from character i on:
\* {{ and }} are the escapes of { and }; any other brace opens a placeholder
\* or is unmatched, and the literal is rejected by the compiler
RECURSIVE format_args(_, _)
format_args(lit, i) ==
    IF i > Len(lit)
    THEN Ok(<<>>)
    ELSE IF lit[i] \in {"{", "}"}
    THEN IF i < Len(lit) /\ lit[i + 1] = lit[i]
         THEN LET rest == format_args(lit, i + 2) IN
              IF rest.ok THEN Ok(<<lit[i]>> \o rest.val) ELSE rest
         ELSE Err("invalid format string")
    ELSE LET rest == format_args(lit, i + 1) IN
         IF rest.ok THEN Ok(<<lit[i]>> \o rest.val) ELSE rest

\* rustc accepts the emitted items: every write!(f, #string) is well formed
Compiles(tokens) ==
    \A i \in DOMAIN tokens.display_arms :
        format_args(tokens.display_arms[i].fmt.str, 1).ok

\* the emitted Display::fmt: match self { Self::#variant => write!(f, #string), }
fmt(tokens, self) ==
    LET arm == CHOOSE i \in DOMAIN tokens.display_arms :
                   tokens.display_arms[i].variant = self
    IN format_args(tokens.display_arms[arm].fmt.str, 1).val

str_invalid == <<"i", "n", "v", "a", "l", "i", "d", " ">>
str_colon == <<":", " ">>
str_invalid_value == <<"i", "n", "v", "a", "l", "i", "d", " ", "v", "a", "l", "u", "e">>

\* mutant: the message holds the folded input
error_of_folded(tokens, s) ==
    IF tokens.error \in {"std::format!", "alloc::fmt::format"}
    THEN str_invalid \o tokens.ident \o str_colon
         \o (IF s.unicase THEN [k \in DOMAIN s.str |->
                                   IF s.str[k] = "A" THEN "a"
                                   ELSE IF s.str[k] = "B" THEN "b" ELSE s.str[k]]
             ELSE s.str)
    ELSE str_invalid_value

\* the emitted Err(#error)
error(tokens, s) ==
    IF tokens.error \in {"std::format!", "alloc::fmt::format"}
    THEN str_invalid \o tokens.ident \o str_colon \o Display(s)
    ELSE str_invalid_value

\* the chain of emitted ifs from arm i on, then Err(#error)
RECURSIVE from_str_from(_, _, _)
from_str_from(tokens, s, i) ==
    IF i > Len(tokens.from_str_arms)
    THEN Err(error(tokens, s))
    ELSE IF StrEq(s, Eval(tokens.from_str_arms[i].test, s.str))
    THEN Ok(tokens.from_str_arms[i].variant)
    ELSE from_str_from(tokens, s, i + 1)

\* the emitted FromStr::from_str: let s = #unicase_input; ...
from_str(tokens, s) ==
    from_str_from(tokens, Eval(tokens.unicase_input, s), 1)

\* the emitted Serialize::serialize: serializer.collect_str(self) hands the
\* serializer the string Display writes
serialize(tokens, self) == fmt(tokens, self)

str_a_valid == <<"a", " ", "v", "a", "l", "i", "d", " ">>
str_string_value == <<" ", "s", "t", "r", "i", "n", "g", " ", "v", "a", "l", "u", "e">>

\* the emitted Visitor::expecting
expecting(tokens) == str_a_valid \o tokens.ident \o str_string_value

\* mutant: the error of from_str is handed on as it is
visit_str_of_from_str(tokens, v) == from_str(tokens, v)

\* the emitted Visitor::visit_str
visit_str(tokens, v) ==
    LET r == from_str(tokens, v) IN
    IF r.ok
    THEN Ok(r.val)
    ELSE Err([kind |-> "invalid_value", unexpected |-> v,
              expecting |-> expecting(tokens)])

\* the emitted Deserialize::deserialize, the deserializer holding a string
deserialize(tokens, token) == visit_str(tokens, token)

\* the Visitor::visit_str derive_deserialize emits; r is what the FromStr of
\* the caller returns for v
custom_visit_str(tokens, v, r) ==
    IF r.ok
    THEN Ok(r.val)
    ELSE Err([kind |-> "invalid_value", unexpected |-> v,
              expecting |-> expecting(tokens)])

\* the Deserialize::deserialize derive_deserialize emits
custom_deserialize(tokens, token, r) == custom_visit_str(tokens, token, r)

\* serde's Vec<T>: the elements one after the other, the first error returned
RECURSIVE deserialize_seq(_, _, _)
deserialize_seq(tokens, wire, i) ==
    IF i > Len(wire)
    THEN Ok(<<>>)
    ELSE LET head == deserialize(tokens, wire[i]) IN
         IF ~head.ok
         THEN head
         ELSE LET rest == deserialize_seq(tokens, wire, i + 1) IN
              IF rest.ok THEN Ok(<<head.val>> \o rest.val) ELSE rest

(***************************************************************************)
(* The declarations explored.                                              *)
(***************************************************************************)
TypeName == <<"T">>

StrValue(str) == [expr |-> "Lit", lit |-> "Str", str |-> str]
IntValue == [expr |-> "Lit", lit |-> "Int", str |-> <<>>]
PathValue == [expr |-> "Path", lit |-> "", str |-> <<>>]
NoValue == [expr |-> "", lit |-> "", str |-> <<>>]

NameValue(path, value) == [meta |-> "NameValue", path |-> path, value |-> value]

\* #[string = "a"], #[string = "b"], #[string = Fire], #[alias = "a"],
\* #[alias = "b"], #[alias = 1234], #[doc = "a"], #[string]
AttrPool ==
    {NameValue("string", StrValue(<<"a">>)), NameValue("string", StrValue(<<"b">>)),
     NameValue("string", PathValue),
     NameValue("alias", StrValue(<<"a">>)), NameValue("alias", StrValue(<<"b">>)),
     NameValue("alias", IntValue),
     NameValue("doc", StrValue(<<"a">>)),
     [meta |-> "Path", path |-> "string", value |-> NoValue]}

FieldKinds == {"Unit", "Unnamed"}

\* the sizes of the variants of a declaration: sequences of positive numbers
\* of sum at most size
RECURSIVE Shapes(_)
Shapes(size) ==
    {<<>>} \cup
    UNION {{<<w>> \o rest : rest \in Shapes(size - w)} : w \in 1..size}

RECURSIVE Sum(_, _)
Sum(shape, n) == IF n = 0 THEN 0 ELSE Sum(shape, n - 1) + shape[n]

\* items (Sum(shape, i - 1) - (i - 1)) + 1 .. of flat, shape[i] - 1 of them
Slice(shape, flat, i) ==
    [j \in 1..(shape[i] - 1) |-> flat[Sum(shape, i - 1) - (i - 1) + j]]

\* a declaration of variants shape[i] - 1 attributes each
RawEnum(shape, flat, fields) ==
    [ident |-> TypeName, data |-> "Enum",
     variants |-> [i \in DOMAIN shape |->
                      [ident |-> i, attrs |-> Slice(shape, flat, i),
                       fields |-> fields[i]]]]

RawStruct == [ident |-> TypeName, data |-> "Struct", variants |-> <<>>]

\* the strings labeled enums are declared with
StrPool == {<<"a">>, <<"A">>, <<"{", "{">>}

\* a declaration of unit variants, variant i with the canonical string
\* canon[i] and shape[i] - 1 aliases, as the tests write them
LabeledEnum(shape, canon, flat) ==
    [ident |-> TypeName, data |-> "Enum",
     variants |-> [i \in DOMAIN shape |->
                      [ident |-> i,
                       attrs |-> <<NameValue("string", StrValue(canon[i]))>>
                                 \o [j \in 1..(shape[i] - 1) |->
                                        NameValue("alias", StrValue(Slice(shape, flat, i)[j]))],
                       fields |-> "Unit"]]]

\* the strings handed to from_str
RunInputs == StrPool \cup {<<"B">>, <<"{">>}

(***************************************************************************)
(* Spec: one declaration, expanded by one of the derive macros.            *)
(***************************************************************************)
NoOutput == [macro |-> "", exp |-> CompileError(NoError)]
NoImpls == [features |-> {}, ser |-> NoTokens, de |-> NoTokens]
NoRet == [op |-> "", self |-> 0, s |-> <<>>, text |-> <<>>, res |-> Err(<<>>)]
NoSerde == [op |-> "", values |-> <<>>, wire |-> <<>>, res |-> Err(<<>>)]

Init ==
    /\ \/ input = RawStruct
       \/ \E shape \in Shapes(MaxDeclSize) :
              \E flat \in [1..(Sum(shape, Len(shape)) - Len(shape)) -> AttrPool],
                 fields \in [DOMAIN shape -> FieldKinds] :
                  input = RawEnum(shape, flat, fields)
    /\ output = NoOutput
    /\ impls = NoImpls
    /\ ret = NoRet
    /\ serde = NoSerde

DeriveSerialize ==
    /\ output = NoOutput
    /\ output' = [macro |-> "SerializeStringEnum", exp |-> derive_serialize(input)]
    /\ UNCHANGED <<input, impls, ret, serde>>

DeriveDeserialize ==
    /\ output = NoOutput
    /\ output' = [macro |-> "DeserializeStringEnum", exp |-> derive_deserialize(input)]
    /\ UNCHANGED <<input, impls, ret, serde>>

DeriveLabeledSerialize ==
    /\ output = NoOutput
    /\ output' = [macro |-> "SerializeLabeledStringEnum",
                  exp |-> derive_labeled_serialize(input)]
    /\ UNCHANGED <<input, impls, ret, serde>>

DeriveLabeledDeserialize ==
    /\ output = NoOutput
    /\ \E features \in FeatureSets :
           output' = [macro |-> "DeserializeLabeledStringEnum",
                      exp |-> derive_labeled_deserialize(features, input)]
    /\ UNCHANGED <<input, impls, ret, serde>>

Next ==
    \/ DeriveSerialize
    \/ DeriveDeserialize
    \/ DeriveLabeledSerialize
    \/ DeriveLabeledDeserialize

Spec == Init /\ [][Next]_vars

(***************************************************************************)
(* SpecRun: a labeled enum that derives both labeled macros, and calls of  *)
(* the emitted Display and FromStr.                                        *)
(***************************************************************************)
InitRun ==
    /\ \E shape \in Shapes(MaxLabels) \ {<<>>} :
           \E canon \in [DOMAIN shape -> StrPool],
              flat \in [1..(Sum(shape, Len(shape)) - Len(shape)) -> StrPool] :
               input = LabeledEnum(shape, canon, flat)
    /\ output = NoOutput
    /\ \E ser \in {derive_labeled_serialize(input)}, features \in FeatureSets :
           \E de \in {derive_labeled_deserialize(features, input)} :
               /\ ser.ok
               /\ Compiles(ser.tokens)
               /\ de.ok
               /\ impls = [features |-> features, ser |-> ser.tokens, de |-> de.tokens]
    /\ ret = NoRet
    /\ serde = NoSerde

Variants == {input.variants[i].ident : i \in DOMAIN input.variants}

\* format(format_args!("{}", v)), v.to_string().  The emitted functions keep
\* no state, so a behaviour makes one call (and may parse what fmt wrote).
CallFmt ==
    /\ ret = NoRet
    /\ \E self \in Variants :
           ret' = [op |-> "fmt", self |-> self, s |-> <<>>,
                   text |-> fmt(impls.ser, self), res |-> Ok(0)]
    /\ UNCHANGED <<input, output, impls, serde>>

\* T::from_str(s)
CallFromStr ==
    /\ ret = NoRet
    /\ \E s \in RunInputs :
           ret' = [op |-> "from_str", self |-> 0, s |-> s,
                   text |-> <<>>, res |-> from_str(impls.de, s)]
    /\ UNCHANGED <<input, output, impls, serde>>

\* T::from_str(&v.to_string()), on the string the last call of fmt wrote
CallFromStrOfFmt ==
    /\ ret.op = "fmt"
    /\ ret' = [op |-> "from_str", self |-> ret.self, s |-> ret.text,
               text |-> <<>>, res |-> from_str(impls.de, ret.text)]
    /\ UNCHANGED <<input, output, impls, serde>>

NextRun ==
    \/ CallFmt
    \/ CallFromStr
    \/ CallFromStrOfFmt

SpecRun == InitRun /\ [][NextRun]_vars

(***************************************************************************)
(* SpecSerde: a labeled enum that derives both labeled macros, its values  *)
(* written by a serializer and read back by a deserializer.                *)
(***************************************************************************)
InitSerde ==
    /\ \/ /\ \E shape \in Shapes(MaxSerdeLabels) \ {<<>>} :
                  \E canon \in [DOMAIN shape -> StrPool],
                     flat \in [1..(Sum(shape, Len(shape)) - Len(shape)) -> StrPool] :
                      input = LabeledEnum(shape, canon, flat)
          /\ \E ser \in {derive_labeled_serialize(input)}, features \in FeatureSets :
                 \E de \in {derive_labeled_deserialize(features, input)} :
                     /\ ser.ok
                     /\ Compiles(ser.tokens)
                     /\ de.ok
                     /\ impls = [features |-> features, ser |-> ser.tokens,
                                 de |-> de.tokens]
       \* an enum without annotations that derives the two custom macros over
       \* a Display and a FromStr of its author
       \/ /\ \E n \in 1..MaxSerdeLabels :
                  \E fields \in [1..n -> FieldKinds] :
                      input = RawEnum([i \in 1..n |-> 1], <<>>, fields)
          /\ \E ser \in {derive_serialize(input)}, de \in {derive_deserialize(input)} :
                 /\ ser.ok
                 /\ de.ok
                 /\ impls = [features |-> {}, ser |-> ser.tokens, de |-> de.tokens]
    /\ output = NoOutput
    /\ ret = NoRet
    /\ serde = NoSerde

\* to_string(&values) of a collection of variants
SerializeSeq ==
    /\ serde = NoSerde
    /\ impls.ser.impl_display
    /\ \E n \in 0..MaxSeq :
           \E values \in [1..n -> Variants] :
               serde' = [op |-> "serialize", values |-> values,
                         wire |-> [k \in 1..n |-> serialize(impls.ser, values[k])],
                         res |-> Err(<<>>)]
    /\ UNCHANGED <<input, output, impls, ret>>

\* from_str::<Vec<T>> of what the serializer wrote
DeserializeWritten ==
    /\ serde.op = "serialize"
    /\ serde' = [serde EXCEPT !.op = "deserialize",
                              !.res = deserialize_seq(impls.de, serde.wire, 1)]
    /\ UNCHANGED <<input, output, impls, ret>>

\* from_str::<Vec<T>> of any strings
DeserializeSeq ==
    /\ serde = NoSerde
    /\ impls.de.impl_from_str
    /\ \E n \in 0..MaxSeq :
           \E wire \in [1..n -> RunInputs] :
               serde' = [op |-> "deserialize", values |-> <<>>, wire |-> wire,
                         res |-> deserialize_seq(impls.de, wire, 1)]
    /\ UNCHANGED <<input, output, impls, ret>>

\* what a FromStr written by the author of the enum may return
CallerErrors == {<<"e">>, <<"i", "n", "v", "a", "l", "i", "d", " ", "v", "a", "l", "u", "e">>}
CallerResults == {Ok(v) : v \in Variants} \cup {Err(e) : e \in CallerErrors}

\* from_str::<T> of one string, the enum deriving DeserializeLabeledStringEnum;
\* ret is the call of from_str visit_str makes
DeserializeStr ==
    /\ serde = NoSerde
    /\ impls.de.impl_from_str
    /\ \E s \in RunInputs :
           /\ ret' = [op |-> "from_str", self |-> 0, s |-> s, text |-> <<>>,
                      res |-> from_str(impls.de, s)]
           /\ serde' = [op |-> "deserialize_str", values |-> <<>>, wire |-> <<s>>,
                        res |-> deserialize(impls.de, s)]
    /\ UNCHANGED <<input, output, impls>>

\* from_str::<T> of one string, the enum deriving DeserializeStringEnum; ret
\* is the call of the author's from_str visit_str makes
DeserializeStrCustom ==
    /\ serde = NoSerde
    /\ ~impls.de.impl_from_str
    /\ \E s \in RunInputs, r \in CallerResults :
           /\ ret' = [op |-> "from_str", self |-> 0, s |-> s, text |-> <<>>,
                      res |-> r]
           /\ serde' = [op |-> "deserialize_str", values |-> <<>>, wire |-> <<s>>,
                        res |-> custom_deserialize(impls.de, s, r)]
    /\ UNCHANGED <<input, output, impls>>

NextSerde ==
    \/ SerializeSeq
    \/ DeserializeWritten
    \/ DeserializeSeq
    \/ DeserializeStr
    \/ DeserializeStrCustom

SpecSerde == InitSerde /\ [][NextSerde]_vars

(***************************************************************************)
(* The declaration as its author reads it, for the properties below.       *)
(***************************************************************************)
IsNameValue(attr, path) == attr.meta = "NameValue" /\ attr.path = path

IsStrLiteral(attr) == attr.value.expr = "Lit" /\ attr.value.lit = "Str"

\* a "string" or "alias" annotation whose value is not a string literal
Malformed(attr) ==
    /\ IsNameValue(attr, "string") \/ IsNameValue(attr, "alias")
    /\ ~IsStrLiteral(attr)

HasCanonical(variant) ==
    \E j \in DOMAIN variant.attrs :
        IsNameValue(variant.attrs[j], "string") /\ IsStrLiteral(variant.attrs[j])

\* the literal of the (last) "string" annotation
DeclaredCanonical(variant) ==
    LET at == {j \in DOMAIN variant.attrs : IsNameValue(variant.attrs[j], "string")}
        last == CHOOSE j \in at : \A k \in at : k <= j
    IN variant.attrs[last].value.str

\* the literals of the "alias" annotations, in the order written
DeclaredAliases(variant) ==
    LET al == SelectSeq(variant.attrs, LAMBDA a : IsNameValue(a, "alias"))
    IN [j \in DOMAIN al |-> al[j].value.str]

DeclaredLabels(variant) == <<DeclaredCanonical(variant)>> \o DeclaredAliases(variant)

\* the labels of the variants from variant i on, each with its variant, in
\* the order written
RECURSIVE LabelsFrom(_)
LabelsFrom(i) ==
    IF i > Len(input.variants) THEN <<>>
    ELSE LET labels == DeclaredLabels(input.variants[i]) IN
         [k \in DOMAIN labels |-> [variant |-> i, label |-> labels[k]]]
         \o LabelsFrom(i + 1)

\* x spelled in another letter case
SameLetter(c, d) == c = d \/ {c, d} \in {{"a", "A"}, {"b", "B"}}
Recasing(x, y) ==
    Len(x) = Len(y) /\ \A k \in DOMAIN x : SameLetter(x[k], y[k])

CaseInsensitive == "unicase" \in impls.features

\* s is accepted for label under the case policy of the build
Matches(s, label) == IF CaseInsensitive THEN Recasing(s, label) ELSE s = label

\* s is accepted for a canonical string or alias of variant i
MatchesVariant(s, i) ==
    LET labels == DeclaredLabels(input.variants[i]) IN
    \E k \in DOMAIN labels : Matches(s, labels[k])

NoEarlierMatch(s, i) == \A j \in 1..(i - 1) : ~MatchesVariant(s, j)

InvalidValueMessage(s) ==
    IF impls.features \cap {"alloc", "std"} # {}
    THEN <<"i", "n", "v", "a", "l", "i", "d", " ">> \o input.ident \o <<":", " ">> \o s
    ELSE <<"i", "n", "v", "a", "l", "i", "d", " ", "v", "a", "l", "u", "e">>

Returned(variant) == ret.res.ok /\ ret.res.val = variant
Failed == ~ret.res.ok /\ ret.res.err = InvalidValueMessage(ret.s)

(***************************************************************************)
(* Properties of the emitted Display and FromStr (SpecRun).                *)
(***************************************************************************)
\* no label of a variant is accepted for a label of another variant
NoCollision ==
    \A i, j \in DOMAIN input.variants :
        i # j =>
            LET labels == DeclaredLabels(input.variants[i]) IN
            \A k \in DOMAIN labels : ~MatchesVariant(labels[k], j)

\* C1: round trip, Parse(Render(v)) returns v for every variant v of every
\* accepted labeled enum, under either case policy.  Stated here for the enums
\* no two variants of which share a label under the case policy, where no
\* earlier test can shadow a variant's canonical string; it fails even there.
C1_RoundTrip ==
    (ret.op = "from_str" /\ ret.self # 0 /\ NoCollision) => Returned(ret.self)

\* C6: Render returns the variant's canonical string verbatim, character for
\* character.
C6_RenderVerbatim ==
    ret.op = "fmt" => ret.text = DeclaredCanonical(input.variants[ret.self])

\* the emitted tests are, variant after variant in declaration order, the
\* canonical string and then the aliases in the order written, unchanged
TestOrder ==
    LET arms == impls.de.from_str_arms
        labels == LabelsFrom(1)
    IN /\ Len(arms) = Len(labels)
       /\ \A p \in DOMAIN labels :
              /\ arms[p].variant = labels[p].variant
              /\ arms[p].test.t = LitToken(labels[p].label)

\* from_str returns the first variant in declaration order one of whose
\* labels is accepted for the input, and fails when there is none
FirstMatch ==
    ret.op = "from_str" =>
        /\ \A i \in DOMAIN input.variants :
               (MatchesVariant(ret.s, i) /\ NoEarlierMatch(ret.s, i)) => Returned(i)
        /\ (\A i \in DOMAIN input.variants : ~MatchesVariant(ret.s, i)) => ~ret.res.ok

\* the input is A's canonical string and an alias of another variant B,
\* A declared no later than B
CanonicalAndAlias(A, B) ==
    /\ A < B
    /\ ret.s = DeclaredCanonical(input.variants[A])
    /\ LET aliases == DeclaredAliases(input.variants[B]) IN
       \E k \in DOMAIN aliases : ret.s = aliases[k]

\* C2 (as stated): variants are tested in declaration order, canonical string
\* first and then the aliases in the order declared, the first match is
\* returned; and an input that is A's canonical string and an alias of a
\* different variant B returns A whenever A is declared no later than B.
C2_Original ==
    /\ TestOrder
    /\ FirstMatch
    /\ ret.op = "from_str" =>
           \A A, B \in DOMAIN input.variants : CanonicalAndAlias(A, B) => Returned(A)

\* C2 (amended): as C2, the consequence holding when no variant declared
\* before A has a canonical string or alias that matches the input.
C2_FirstMatch ==
    /\ TestOrder
    /\ FirstMatch
    /\ ret.op = "from_str" =>
           \A A, B \in DOMAIN input.variants :
               (CanonicalAndAlias(A, B) /\ NoEarlierMatch(ret.s, A)) => Returned(A)

C2_Witness ==
    /\ ret.op = "from_str"
    /\ \E A, B \in DOMAIN input.variants :
           /\ CanonicalAndAlias(A, B)
           /\ Len(DeclaredAliases(input.variants[A])) > 0
           /\ Returned(A)

IsAliasOf(s, B) ==
    LET aliases == DeclaredAliases(input.variants[B]) IN
    \E k \in DOMAIN aliases : s = aliases[k]

\* C3 (as stated): Parse(alias) returns the variant on which the alias was
\* declared, for every alias of every accepted labeled enum.
C3_Original ==
    ret.op = "from_str" =>
        \A B \in DOMAIN input.variants : IsAliasOf(ret.s, B) => Returned(B)

\* C3 (amended): Parse(alias) returns the variant on which the alias was
\* declared, provided no variant declared earlier has a canonical string or
\* alias that matches the alias under the case policy.
C3_AliasResolution ==
    ret.op = "from_str" =>
        \A B \in DOMAIN input.variants :
            (IsAliasOf(ret.s, B) /\ NoEarlierMatch(ret.s, B)) => Returned(B)

C3_Witness ==
    /\ ret.op = "from_str"
    /\ \E B \in DOMAIN input.variants :
           /\ B > 1
           /\ IsAliasOf(ret.s, B)
           /\ ret.s # DeclaredCanonical(input.variants[B])
           /\ Returned(B)

\* the input differs from a label of variant i in letter case only
RecasedLabel(s, i) ==
    LET labels == DeclaredLabels(input.variants[i]) IN
    \E k \in DOMAIN labels : Recasing(s, labels[k]) /\ s # labels[k]

IsLabelOf(s, i) ==
    LET labels == DeclaredLabels(input.variants[i]) IN
    \E k \in DOMAIN labels : s = labels[k]

\* the input and every candidate are compared the same way, and the literals
\* compared are the declared strings
SymmetricFolding ==
    /\ impls.de.unicase_input.unicase = CaseInsensitive
    /\ \A p \in DOMAIN impls.de.from_str_arms :
           /\ impls.de.from_str_arms[p].test.unicase = CaseInsensitive
           /\ IsLabelOf(impls.de.from_str_arms[p].test.t.str,
                        impls.de.from_str_arms[p].variant)

\* C4 (as stated): under CaseInsensitive, Parse of any re-casing of a
\* canonical string or alias returns the variant owning it; under
\* CaseSensitive, an input differing from a canonical string or alias only in
\* letter case fails with InvalidValue; folding is applied to both sides and
\* the stored strings are unchanged.
C4_Original ==
    /\ SymmetricFolding
    /\ ret.op = "from_str" =>
           \A i \in DOMAIN input.variants :
               /\ (CaseInsensitive /\ (RecasedLabel(ret.s, i) \/ IsLabelOf(ret.s, i)))
                      => Returned(i)
               /\ (~CaseInsensitive /\ RecasedLabel(ret.s, i)) => Failed

\* C4 (amended): under CaseInsensitive, Parse of any re-casing of a canonical
\* string or alias returns the variant owning it provided no variant declared
\* earlier has a label equal to it up to letter case; under CaseSensitive, an
\* input differing from a canonical string or alias only in letter case, and
\* itself no canonical string or alias, fails with InvalidValue; folding is
\* applied to both sides and the stored strings are unchanged.
C4_CasePolicy ==
    /\ SymmetricFolding
    /\ ret.op = "from_str" =>
           \A i \in DOMAIN input.variants :
               /\ (/\ CaseInsensitive
                   /\ RecasedLabel(ret.s, i) \/ IsLabelOf(ret.s, i)
                   /\ \A j \in 1..(i - 1) :
                          ~(RecasedLabel(ret.s, j) \/ IsLabelOf(ret.s, j)))
                      => Returned(i)
               /\ (/\ ~CaseInsensitive
                   /\ RecasedLabel(ret.s, i)
                   /\ \A j \in DOMAIN input.variants : ~IsLabelOf(ret.s, j))
                      => Failed

C4_Witness ==
    /\ ret.op = "from_str"
    /\ CaseInsensitive
    /\ \E i \in DOMAIN input.variants :
           /\ i > 1
           /\ RecasedLabel(ret.s, i)
           /\ ~IsLabelOf(ret.s, i)
           /\ Returned(i)

\* C5: an input that matches no canonical string or alias fails with
\* InvalidValue, the message being "invalid {EnumName}: {input}", the input as
\* the caller gave it, when allocation is available, and "invalid value"
\* when it is not.
C5_UnknownInput ==
    (ret.op = "from_str" /\ \A i \in DOMAIN input.variants : ~MatchesVariant(ret.s, i))
        => Failed

C5_Witness ==
    /\ ret.op = "from_str"
    /\ \A i \in DOMAIN input.variants : ~MatchesVariant(ret.s, i)
    /\ CaseInsensitive
    /\ "alloc" \in impls.features
    /\ ret.s = <<"B">>
    /\ ret.res = Err(<<"i", "n", "v", "a", "l", "i", "d", " ", "T", ":", " ", "B">>)

(***************************************************************************)
(* Properties of the derive macros (Spec).                                 *)
(***************************************************************************)
LabeledMacros == {"SerializeLabeledStringEnum", "DeserializeLabeledStringEnum"}
CustomMacros == {"SerializeStringEnum", "DeserializeStringEnum"}

IsEnum == input.data = "Enum"
NoVariants == input.variants = <<>>
AnyNonUnit == \E i \in DOMAIN input.variants : input.variants[i].fields # "Unit"
AnyMissing == \E i \in DOMAIN input.variants : ~HasCanonical(input.variants[i])
WellFormed ==
    \A i \in DOMAIN input.variants :
        \A j \in DOMAIN input.variants[i].attrs : ~Malformed(input.variants[i].attrs[j])

Rejected(e) ==
    /\ ~output.exp.ok
    /\ ~output.exp.panic
    /\ output.exp.err = e
    /\ output.exp.tokens = NoTokens

Accepted ==
    /\ output.exp.ok
    /\ output.exp.tokens # NoTokens

\* C8 (as stated): Labeled-mode validation rejects with NotAnEnum what is not
\* an enum, with EmptyEnum an enum of zero variants, with NonUnitVariant an
\* enum any variant of which carries data, with MissingCanonicalString an enum
\* any variant of which lacks a canonical string; a declaration violating
\* none of these, with well-formed annotations, is accepted.
C8_Original ==
    output.macro \in LabeledMacros =>
        /\ ~IsEnum => Rejected(NotAnEnum)
        /\ (IsEnum /\ NoVariants) => Rejected(EmptyEnum)
        /\ (IsEnum /\ AnyNonUnit) => Rejected(NonUnitVariant)
        /\ (IsEnum /\ AnyMissing) => Rejected(MissingCanonicalString)
        /\ (IsEnum /\ ~NoVariants /\ ~AnyNonUnit /\ ~AnyMissing /\ WellFormed) => Accepted

\* C8 (amended): NonUnitVariant is reported when a variant carries data and
\* every annotation is well formed; MissingCanonicalString when a variant
\* lacks a canonical string, every variant is a unit variant and every
\* annotation is well formed; the rest as stated.
C8_ShapeValidation ==
    output.macro \in LabeledMacros =>
        /\ ~IsEnum => Rejected(NotAnEnum)
        /\ (IsEnum /\ NoVariants) => Rejected(EmptyEnum)
        /\ (IsEnum /\ AnyNonUnit /\ WellFormed) => Rejected(NonUnitVariant)
        /\ (IsEnum /\ AnyMissing /\ ~AnyNonUnit /\ WellFormed)
               => Rejected(MissingCanonicalString)
        /\ (IsEnum /\ ~NoVariants /\ ~AnyNonUnit /\ ~AnyMissing /\ WellFormed) => Accepted

\* tests/ui/missing_string_attr.rs: a labeled variant, then one without
C8_Witness ==
    /\ output.macro \in LabeledMacros
    /\ Len(input.variants) >= 2
    /\ HasCanonical(input.variants[1])
    /\ ~HasCanonical(input.variants[2])
    /\ ~AnyNonUnit
    /\ WellFormed
    /\ Rejected(MissingCanonicalString)

\* the first malformed annotation of the declaration, in declaration order
FirstMalformed ==
    LET bad == {p \in (DOMAIN input.variants) \X (1..MaxDeclSize + 1) :
                    /\ p[2] \in DOMAIN input.variants[p[1]].attrs
                    /\ Malformed(input.variants[p[1]].attrs[p[2]])}
        p == CHOOSE q \in bad :
                 \A r \in bad : q[1] < r[1] \/ (q[1] = r[1] /\ q[2] <= r[2])
    IN input.variants[p[1]].attrs[p[2]]

ExpectedAttrs(variant) ==
    [string |-> IF HasCanonical(variant) THEN Some(DeclaredCanonical(variant)) ELSE None,
     aliases |-> DeclaredAliases(variant)]

\* C9: a "string" or "alias" annotation whose value is not a string literal
\* makes attribute parsing fail with MalformedAttribute naming that attribute
\* (the first such annotation when there are several); when every such
\* annotation carries a string literal, parsing succeeds with the canonical
\* string of the "string" annotation and the aliases of all "alias"
\* annotations in declaration order.
C9_AttributeParsing ==
    /\ \A i \in DOMAIN input.variants :
           LET variant == input.variants[i]
               bad == {j \in DOMAIN variant.attrs : Malformed(variant.attrs[j])}
           IN /\ \A j \in bad :
                     get_string_literal_from_name_value_attr(
                         variant.attrs[j].path, variant.attrs[j])
                     = Err(MalformedAttribute(variant.attrs[j].path))
              /\ bad # {} =>
                     LET first == CHOOSE j \in bad : \A k \in bad : j <= k IN
                     parse_variant_attrs(variant)
                     = Err(MalformedAttribute(variant.attrs[first].path))
              /\ bad = {} => parse_variant_attrs(variant) = Ok(ExpectedAttrs(variant))
    /\ (output.macro # "" /\ IsEnum /\ ~WellFormed)
           => Rejected(MalformedAttribute(FirstMalformed.path))
    /\ (output.macro \in LabeledMacros /\ Accepted) => WellFormed

\* tests/ui/non_string_alias.rs: #[string = "a"] #[alias = 1234]
C9_Witness ==
    /\ output.macro = "DeserializeLabeledStringEnum"
    /\ \E i \in DOMAIN input.variants :
           /\ Len(input.variants[i].attrs) = 2
           /\ IsNameValue(input.variants[i].attrs[1], "string")
           /\ IsStrLiteral(input.variants[i].attrs[1])
           /\ IsNameValue(input.variants[i].attrs[2], "alias")
           /\ Malformed(input.variants[i].attrs[2])
    /\ Rejected(MalformedAttribute("alias"))

\* C10: in Custom mode validation fails only with NotAnEnum or EmptyEnum;
\* every enum with at least one variant is accepted whatever the fields and
\* annotations of its variants.
C10_CustomValidation ==
    output.macro \in CustomMacros =>
        /\ (IsEnum /\ ~NoVariants) => Accepted
        /\ ~output.exp.ok => output.exp.err \in {NotAnEnum, EmptyEnum}

\* C12: a codec is emitted only after validation has succeeded: an expansion
\* that reports an error emits nothing of the codec, and a declaration whose
\* codec is emitted by a labeled macro has at least one variant, every variant
\* a unit variant with a canonical string, so that the generator's lookup of
\* the canonical string never meets a missing value.
C12_EmitAfterValidation ==
    output.macro # "" =>
        /\ ~output.exp.panic
        /\ ~output.exp.ok =>
               /\ output.exp.err # NoError
               /\ output.exp.tokens = NoTokens
        /\ output.exp.ok =>
               /\ output.exp.err = NoError
               /\ IsEnum /\ ~NoVariants /\ WellFormed
        /\ (output.exp.ok /\ output.macro \in LabeledMacros) =>
               /\ ~AnyNonUnit /\ ~AnyMissing
               /\ output.macro = "SerializeLabeledStringEnum" =>
                      /\ Len(output.exp.tokens.display_arms) = Len(input.variants)
                      /\ \A i \in DOMAIN input.variants :
                             output.exp.tokens.display_arms[i].fmt.str
                             = DeclaredCanonical(input.variants[i])
               /\ output.macro = "DeserializeLabeledStringEnum" =>
                      Len(output.exp.tokens.from_str_arms) >= Len(input.variants)

\* two labeled variants: the codec is emitted, one arm for each
C12_Witness ==
    /\ output.macro = "SerializeLabeledStringEnum"
    /\ Accepted
    /\ Len(input.variants) = 2
    /\ DeclaredCanonical(input.variants[1]) # DeclaredCanonical(input.variants[2])
    /\ Len(output.exp.tokens.display_arms) = 2

\* the one error validation reports for the declaration under the macro, in
\* the order the conditions are tested; NoError when it violates none
FirstError ==
    IF ~IsEnum THEN NotAnEnum
    ELSE IF ~WellFormed THEN MalformedAttribute(FirstMalformed.path)
    ELSE IF NoVariants THEN EmptyEnum
    ELSE IF output.macro \in LabeledMacros /\ AnyNonUnit THEN NonUnitVariant
    ELSE IF output.macro \in LabeledMacros /\ AnyMissing THEN MissingCanonicalString
    ELSE NoError

\* C13: validation is first-error-wins with a fixed precedence: one error is
\* reported, chosen in the order NotAnEnum, MalformedAttribute (of the first
\* malformed annotation in declaration order), EmptyEnum, NonUnitVariant,
\* MissingCanonicalString; an enum with a data-carrying variant and a variant
\* without a canonical string is reported as NonUnitVariant.
C13_FirstErrorWins ==
    output.macro # "" =>
        /\ FirstError # NoError => Rejected(FirstError)
        /\ FirstError = NoError => Accepted
        /\ (output.macro \in LabeledMacros /\ IsEnum /\ WellFormed
               /\ AnyNonUnit /\ AnyMissing) => Rejected(NonUnitVariant)

\* a variant without a canonical string declared before a data-carrying one
C13_Witness ==
    /\ output.macro \in LabeledMacros
    /\ WellFormed
    /\ Len(input.variants) = 2
    /\ ~HasCanonical(input.variants[1])
    /\ input.variants[1].fields = "Unit"
    /\ HasCanonical(input.variants[2])
    /\ input.variants[2].fields # "Unit"
    /\ Rejected(NonUnitVariant)

(***************************************************************************)
(* Properties of the serde adapters (SpecSerde).                           *)
(***************************************************************************)
\* C7: serializing a sequence of labeled variants yields their canonical
\* strings in the same order, and deserializing those strings reproduces the
\* sequence: same length, order and values.  The second half is stated for the
\* enums no two variants of which share a label under the case policy.
C7_CollectionRoundTrip ==
    /\ serde.op = "serialize" =>
           serde.wire = [k \in DOMAIN serde.values |->
                            DeclaredCanonical(input.variants[serde.values[k]])]
    /\ (serde.op = "deserialize" /\ serde.values # <<>> /\ NoCollision) =>
           serde.res = Ok(serde.values)

\* C11: the deserializer adapter, in both modes, returns Ok(v) exactly when
\* Parse(s) returns Ok(v); when Parse(s) fails, whatever the error value, it
\* raises the invalid-value error carrying the input s as given and the
\* expecting text "a valid {EnumName} string value".
C11_DeserializerAdapter ==
    serde.op = "deserialize_str" =>
        /\ ret.op = "from_str" /\ ret.s = serde.wire[1]
        /\ impls.de.impl_from_str => ret.res = from_str(impls.de, serde.wire[1])
        /\ ret.res.ok => serde.res = Ok(ret.res.val)
        /\ ~ret.res.ok =>
               serde.res = Err([kind |-> "invalid_value",
                                unexpected |-> serde.wire[1],
                                expecting |-> <<"a", " ", "v", "a", "l", "i", "d", " ">>
                                              \o input.ident
                                              \o <<" ", "s", "t", "r", "i", "n", "g", " ",
                                                    "v", "a", "l", "u", "e">>])

\* Custom mode: the author's from_str fails with an error of its own
C11_Witness ==
    /\ serde.op = "deserialize_str"
    /\ ~impls.de.impl_from_str
    /\ ret.res = Err(<<"e">>)
    /\ serde.wire = <<<<"B">>>>
    /\ ~serde.res.ok
    /\ serde.res.err.unexpected = <<"B">>

====
